---- MODULE Spec2Model ----
(***************************************************************************)
(* A state-machine model of app.py, the Streamlit YouTube downloader:      *)
(* main()'s form handler, download_content() with its nested               *)
(* cleanup_temp_files() and progress_hook(), check_ffmpeg(),               *)
(* show_ffmpeg_instructions() and _running_in_cloud().                     *)
(*                                                                         *)
(* The extraction library (yt_dlp), the transcoder and the filesystem are  *)
(* the environment: the library's calls either raise or complete, write    *)
(* stream files, report 'finished' progress events and post-process.       *)
(* Streamlit serves each browser session in its own script thread; the     *)
(* sessions share the process-wide IS_CLOUD_DEPLOYMENT and the filesystem. *)
(*                                                                         *)
(* Optional values (Python None) are sequences of length 0 or 1.           *)
(***************************************************************************)
EXTENDS Naturals, Sequences, FiniteSets, TLC

VARIABLES
    IS_CLOUD_DEPLOYMENT, \* module global, line 20
    host,                \* the machine: platform, ffmpeg on PATH, local ffmpeg.exe
    active,              \* the browser sessions being served
    submissions,         \* form submissions the process has handled
    dirs,                \* directories that exist
    files,               \* files that exist
    pc,                  \* per session: position of its script run
    run                  \* per session: the state of its script run, a record:
    \*   req              the submitted form, with main()'s download_folder
    \*   ffmpeg_path      download_content local, line 109
    \*   temp_dir         download_content local, lines 116-123
    \*   download_folder  download_content parameter (reset on cloud, line 118)
    \*   ydl_opts         download_content local, lines 133-164
    \*   downloaded_file  nonlocal written by progress_hook, lines 130, 189
    \*   streams          library: names of the stream files still to fetch
    \*   fetched          library: stream files fetched for the request
    \*   globbed          cleanup_temp_files: entries of temp_dir.glob('*') left
    \*   pending          what the inner try block is about to return or raise
    \*   result           how the call of download_content ended
    \*   shown            widgets and messages rendered to the session
    \*   offered          path reported (st.info) or offered (st.download_button)
    \*   invoked          calls of download_content
    \*   attempts         uses of the extraction library (with YoutubeDL ...)
    \*   mkdirs           temp_dir.mkdir calls
    \*   raised           error classes the library raised
    \*   libOk            the library completed download and post-processing
    \*   warnings         logger.warning calls

vars == <<IS_CLOUD_DEPLOYMENT, host, active, submissions, dirs, files, pc, run>>

(***************************************************************************)
(* Values                                                                  *)
(***************************************************************************)
None == <<>>
Some(x) == <<x>>
\* Python truthiness of an optional string (None and "" are false) and of an
\* optional number (None and 0 are false)
TruthyStr(o) == o # None /\ o[1] # ""
TruthyNum(o) == o # None /\ o[1] # 0

Sessions == {"s1", "s2"}
\* Form submissions handled in one behaviour
MaxSubmissions == 2

\* What a user can type into the URL box
Urls == {"", "   ", "https://example/video1"}
\* A string that is empty or only whitespace
IsBlank(u) == u \in {"", "   "}

DownloadTypes == {"video", "audio"}
\* quality_options, line 310
quality_options == {None, Some(240), Some(360), Some(480), Some(720), Some(1080)}

\* Directories.  A user can type a folder that exists and is writable, one that
\* exists but is read-only, or one that does not exist.
TmpDir == "/tmp"
LocalTempDir == "temp_downloads"
UserDir == "/home/user/Downloads"
ReadOnlyDir == "/usr/share"
MissingDir == "/no/such/folder"
FolderInputs == {"", UserDir, ReadOnlyDir, MissingDir}
WritableDirs == {TmpDir, UserDir, LocalTempDir}

\* Path(p).name
PathName(d) == IF d = UserDir THEN "Downloads"
               ELSE IF d = TmpDir THEN "tmp"
               ELSE IF d = ReadOnlyDir THEN "share"
               ELSE IF d = MissingDir THEN "folder"
               ELSE d

\* A file: the directory it is in and its name as dot-separated parts,
\* <<title, ext>> or <<title, format id, ext>>
File(d, n) == [dir |-> d, name |-> n]
Ext(f) == f.name[Len(f.name)]
\* The video title the library reports for the session's URL: the titles of
\* two sessions differ
Title(s) == s

\* Error classes the extraction library raises, with str(e)
ErrClasses == {"403", "other"}
\* The text of an exception: the library's two classes, and an OSError
ErrText(e) == IF e = "403" THEN "ERROR: HTTP Error 403: Forbidden"
              ELSE IF e = "other" THEN "ERROR: Unsupported URL"
              ELSE "[Errno 13] Permission denied"

\* A rendered widget or message: the function that rendered it, the Streamlit
\* call, and the text as the parts the f-string joins
Msg(by, kind, text) == [by |-> by, kind |-> kind, text |-> text]

(***************************************************************************)
(* _running_in_cloud, lines 14-18                                          *)
(***************************************************************************)
running_in_cloud(headless, home_writable) == headless \/ ~home_writable

(***************************************************************************)
(* check_ffmpeg, lines 34-51.  A host has ffmpeg on PATH or not, and on    *)
(* disk the first of the three probed ffmpeg.exe copies, if any.           *)
(***************************************************************************)
Hosts ==
    { [platform |-> "Linux",   onPath |-> TRUE,  localExe |-> None],
      [platform |-> "Linux",   onPath |-> FALSE, localExe |-> None],
      [platform |-> "Darwin",  onPath |-> FALSE, localExe |-> None],
      [platform |-> "Windows", onPath |-> FALSE, localExe |-> Some("ffmpeg/bin/ffmpeg.exe")],
      [platform |-> "Windows", onPath |-> FALSE, localExe |-> None] }

check_ffmpeg(h) ==
    IF h.onPath THEN Some("ffmpeg")
    ELSE IF h.platform = "Windows" /\ h.localExe # None THEN h.localExe
    ELSE None

\* `if not ffmpeg_path`, line 110 (FfmpegMissing_Never: the test left out)
FfmpegMissing_Never(path) == FALSE
FfmpegMissing(path) == ~TruthyStr(path)

(***************************************************************************)
(* show_ffmpeg_instructions, lines 53-103: what it renders before st.stop()*)
(***************************************************************************)
show_ffmpeg_instructions(cloud, platform) ==
    IF cloud
    THEN { Msg("show_ffmpeg_instructions", "error",
               <<"FFmpeg not available in the cloud container. Ensure packages.txt contains ffmpeg and redeploy.">>) }
    ELSE { Msg("show_ffmpeg_instructions", "error", <<"FFmpeg is required but not found!">>),
           Msg("show_ffmpeg_instructions", "markdown",
               <<"FFmpeg Installation",
                 IF platform = "Windows" THEN "Windows"
                 ELSE IF platform = "Darwin" THEN "macOS" ELSE "Linux">>),
           Msg("show_ffmpeg_instructions", "markdown", <<"After installing, restart the app.">>) }

(***************************************************************************)
(* main, lines 246-300: the folder the form handler passes on              *)
(***************************************************************************)
main_folder(cloud, typed, existing) ==
    IF cloud THEN None
    ELSE IF typed = "" THEN Some(typed)
    ELSE IF typed \notin existing THEN None
    ELSE IF typed \notin WritableDirs THEN None
    ELSE Some(typed)

main_folder_messages(cloud, typed, existing) ==
    IF cloud THEN { Msg("main", "info", <<"Files are saved to /tmp during your session">>) }
    ELSE IF typed = "" THEN { Msg("main", "info", <<"No folder selected">>) }
    ELSE IF typed \notin existing
         THEN { Msg("main", "error", <<"Selected folder does not exist!">>) }
    ELSE IF typed \notin WritableDirs
         THEN { Msg("main", "error", <<"No write permission for selected folder!">>) }
    ELSE { Msg("main", "success", <<"Using folder: ", typed>>) }

\* main, lines 309-314: the quality select box exists only for "video"
main_quality(download_type, chosen) ==
    IF download_type = "video" THEN chosen ELSE None

\* `if not youtube_url`, line 319
UrlRejected(url) == url = ""

(***************************************************************************)
(* download_content, lines 115-123: the target directory                   *)
(***************************************************************************)
isdir(folder, existing) == folder # None /\ folder[1] \in existing

decide_temp_dir(cloud, folder, existing) ==
    IF cloud THEN TmpDir
    ELSE IF TruthyStr(folder) /\ isdir(folder, existing) THEN folder[1]
    ELSE LocalTempDir

\* line 118: on cloud the parameter is overwritten
decide_download_folder(cloud, folder) == IF cloud THEN None ELSE folder

(***************************************************************************)
(* download_content, lines 133-164: the options.  A format selector is the *)
(* '/'-separated alternatives, each the '+'-joined stream selectors, each  *)
(* with its optional [height<=Q] filter.                                   *)
(***************************************************************************)
Sel(stream, height) == [stream |-> stream, height |-> height]

\* format_opts with the cap left out of the fallback alternative ('/best') and
\* applied whatever the quality
format_opts_capless_fallback(download_type, quality) ==
    IF download_type = "audio"
    THEN [format |-> << <<Sel("bestaudio", None)>>, <<Sel("best", None)>> >>,
          postprocessors |-> << [key |-> "FFmpegExtractAudio",
                                 preferredcodec |-> "mp3",
                                 preferredquality |-> "192"] >>,
          merge_output_format |-> None]
    ELSE [format |-> << <<Sel("bestvideo", quality), Sel("bestaudio", None)>>,
                        <<Sel("best", None)>> >>,
          postprocessors |-> <<>>,
          merge_output_format |-> Some("mp4")]

format_opts(download_type, quality) ==
    IF download_type = "audio"
    THEN [format |-> << <<Sel("bestaudio", None)>>, <<Sel("best", None)>> >>,
          postprocessors |-> << [key |-> "FFmpegExtractAudio",
                                 preferredcodec |-> "mp3",
                                 preferredquality |-> "192"] >>,
          merge_output_format |-> None]
    ELSE IF TruthyNum(quality)
    THEN [format |-> << <<Sel("bestvideo", quality), Sel("bestaudio", None)>>,
                        <<Sel("best", quality)>> >>,
          postprocessors |-> <<>>,
          merge_output_format |-> Some("mp4")]
    ELSE [format |-> << <<Sel("bestvideo", None), Sel("bestaudio", None)>>,
                        <<Sel("best", None)>> >>,
          postprocessors |-> <<>>,
          merge_output_format |-> Some("mp4")]

\* lines 133-142 and 196: outtmpl is rooted at temp_dir; ffmpeg_location is set
\* only for a specific path
build_ydl_opts(dir, ffmpeg, download_type, quality) ==
    [outtmpl_dir |-> dir,
     ffmpeg_location |-> IF ffmpeg # Some("ffmpeg") THEN ffmpeg ELSE None,
     opts |-> format_opts(download_type, quality)]

(***************************************************************************)
(* progress_hook, lines 177-194: the new value of downloaded_file          *)
(***************************************************************************)
progress_hook(current, d) ==
    IF d.status = "downloading" THEN current
    ELSE IF d.status = "finished" THEN Some(d.filename)
    ELSE current

(***************************************************************************)
(* cleanup: the test of the finally block, line 227, and the test inside   *)
(* cleanup_temp_files, line 170                                            *)
(***************************************************************************)
finally_calls_cleanup(cloud, folder, existing) ==
    ~cloud /\ (folder = None \/ ~isdir(folder, existing))

cleanup_guard(cloud, dir) == ~cloud /\ PathName(dir) = "temp_downloads"

\* cleanup_temp_files goes on to unlink and rmdir (cleanup_deletes_always:
\* both tests left out)
cleanup_deletes_always(cloud, folder, dir, existing) == TRUE
cleanup_deletes(cloud, folder, dir, existing) ==
    finally_calls_cleanup(cloud, folder, existing) /\ cleanup_guard(cloud, dir)

\* the except handler of download_content, line 231 (error_message_generic:
\* str(e) left out)
error_message_generic(text) == <<"Download failed">>
error_message(text) == <<"Download failed: ", text>>

(***************************************************************************)
(* The state machine                                                       *)
(***************************************************************************)
\* A script run that has not handled a submission
FreshRun ==
    [req |-> None, ffmpeg_path |-> None, temp_dir |-> None, download_folder |-> None,
     ydl_opts |-> None, downloaded_file |-> None, streams |-> <<>>, fetched |-> {},
     globbed |-> {}, pending |-> None, result |-> None, shown |-> {}, offered |-> None,
     invoked |-> 0, attempts |-> 0, mkdirs |-> 0, raised |-> {}, libOk |-> FALSE,
     warnings |-> 0]

InitWith(served, machines) ==
    /\ \E headless \in BOOLEAN, home_writable \in BOOLEAN :
           IS_CLOUD_DEPLOYMENT = running_in_cloud(headless, home_writable)
    /\ host \in machines
    /\ active = served
    /\ submissions = 0
    /\ dirs = {TmpDir, UserDir, ReadOnlyDir}
    /\ files = {}
    /\ pc = [s \in Sessions |-> "idle"]
    /\ run = [s \in Sessions |-> FreshRun]

\* One browser session
Init == InitWith({"s1"}, Hosts)
\* Two browser sessions served by the same process
InitConc == InitWith(Sessions, {h \in Hosts : h.platform = "Linux"})

\* The form as main() reads it, lines 246-316: the folder box is there in
\* local mode only
Form(url, download_type, chosen, typed) ==
    [url |-> url, download_type |-> download_type,
     quality |-> main_quality(download_type, chosen),
     typed |-> IF IS_CLOUD_DEPLOYMENT THEN "" ELSE typed,
     download_folder |-> main_folder(IS_CLOUD_DEPLOYMENT, typed, dirs)]

\* The run after main() rendered the page and read the submitted form
Rendered(form) ==
    [FreshRun EXCEPT !.req = Some(form),
                     !.shown = main_folder_messages(IS_CLOUD_DEPLOYMENT, form.typed, dirs)]

\* download_content up to line 123, for a call that found ffmpeg
Entered(form) ==
    [Rendered(form) EXCEPT
        !.invoked = 1,
        !.ffmpeg_path = check_ffmpeg(host),
        !.temp_dir = Some(decide_temp_dir(IS_CLOUD_DEPLOYMENT, form.download_folder, dirs)),
        !.download_folder = decide_download_folder(IS_CLOUD_DEPLOYMENT, form.download_folder)]

\* lines 230-233: the except handler of download_content
Handled(r, e) ==
    [r EXCEPT !.shown = @ \cup {Msg("download_content", "error", error_message(ErrText(e)))},
              !.result = Some("False"),
              !.pending = None]

\* The call ends: what the inner try block returns is returned, what it raises
\* reaches the except handler of line 230; main, lines 330-331, offers another
\* download after a success
Finished(r) ==
    IF r.pending[1].kind = "raise" THEN Handled(r, r.pending[1].val)
    ELSE [r EXCEPT !.result = Some(r.pending[1].val),
                   !.pending = None,
                   !.shown = IF r.pending[1].val = "True"
                             THEN @ \cup {Msg("main", "button", <<"Download Another">>)}
                             ELSE @]

Return(val) == Some([kind |-> "return", val |-> val])
Raise(e) == Some([kind |-> "raise", val |-> e])

\* What the users submit: with one session every form; with two sessions the
\* forms that differ in what the filesystem sees
Inputs ==
    IF active = Sessions
    THEN {"", "https://example/video1"} \X DownloadTypes \X {None}
             \X {"", UserDir, MissingDir}
    ELSE Urls \X DownloadTypes \X quality_options \X FolderInputs

\* main, lines 318-320: a submission with an empty URL
SubmitRejected(s) ==
    /\ s \in active
    /\ pc[s] = "idle"
    /\ submissions < MaxSubmissions
    /\ submissions' = submissions + 1
    /\ \E in \in Inputs :
         LET url == in[1]
             download_type == in[2]
             chosen == in[3]
             typed == in[4]
         IN
             /\ UrlRejected(url)
             /\ run' = [run EXCEPT ![s] =
                          [Rendered(Form(url, download_type, chosen, typed)) EXCEPT
                              !.shown = @ \cup {Msg("main", "error", <<"Please enter a YouTube URL">>)}]]
             /\ pc' = [pc EXCEPT ![s] = "done"]
             /\ UNCHANGED <<IS_CLOUD_DEPLOYMENT, host, active, dirs, files>>

\* main, line 323, and download_content, lines 109-112: ffmpeg is not found,
\* show_ffmpeg_instructions ends in st.stop(), which ends the script run
SubmitNoFfmpeg(s) ==
    /\ s \in active
    /\ pc[s] = "idle"
    /\ submissions < MaxSubmissions
    /\ submissions' = submissions + 1
    /\ \E in \in Inputs :
         LET url == in[1]
             download_type == in[2]
             chosen == in[3]
             typed == in[4]
         IN
             /\ ~UrlRejected(url)
             /\ FfmpegMissing(check_ffmpeg(host))
             /\ run' = [run EXCEPT ![s] =
                          [Rendered(Form(url, download_type, chosen, typed)) EXCEPT
                              !.invoked = 1,
                              !.ffmpeg_path = check_ffmpeg(host),
                              !.shown = @ \cup show_ffmpeg_instructions(IS_CLOUD_DEPLOYMENT, host.platform),
                              !.result = Some("stopped")]]
             /\ pc' = [pc EXCEPT ![s] = "done"]
             /\ UNCHANGED <<IS_CLOUD_DEPLOYMENT, host, active, dirs, files>>

\* download_content, lines 109-196: the directory is made, the options built
SubmitStart(s) ==
    /\ s \in active
    /\ pc[s] = "idle"
    /\ submissions < MaxSubmissions
    /\ submissions' = submissions + 1
    /\ \E in \in Inputs :
         LET url == in[1]
             download_type == in[2]
             chosen == in[3]
             typed == in[4]
         IN
             /\ ~UrlRejected(url)
             /\ ~FfmpegMissing(check_ffmpeg(host))
             /\ LET form == Form(url, download_type, chosen, typed)
                    r == Entered(form)
                IN /\ run' = [run EXCEPT ![s] =
                                [r EXCEPT !.mkdirs = 1,
                                          !.ydl_opts = Some(build_ydl_opts(r.temp_dir[1], r.ffmpeg_path,
                                                                           form.download_type, form.quality))]]
                   /\ dirs' = dirs \cup {r.temp_dir[1]}
             /\ pc' = [pc EXCEPT ![s] = "extract"]
             /\ UNCHANGED <<IS_CLOUD_DEPLOYMENT, host, active, files>>

\* line 125 raises (the working directory is not writable): the handler of
\* line 230 reports it
SubmitMkdirFails(s) ==
    /\ s \in active
    /\ pc[s] = "idle"
    /\ submissions < MaxSubmissions
    /\ submissions' = submissions + 1
    /\ \E in \in Inputs :
         LET url == in[1]
             download_type == in[2]
             chosen == in[3]
             typed == in[4]
         IN
             /\ ~UrlRejected(url)
             /\ ~FfmpegMissing(check_ffmpeg(host))
             /\ LET r == Entered(Form(url, download_type, chosen, typed))
                IN /\ r.temp_dir[1] \notin dirs
                   /\ run' = [run EXCEPT ![s] = Handled([r EXCEPT !.mkdirs = 1], "oserror")]
             /\ pc' = [pc EXCEPT ![s] = "done"]
             /\ UNCHANGED <<IS_CLOUD_DEPLOYMENT, host, active, dirs, files>>

(***************************************************************************)
(* The extraction library, called at lines 199-203.  For the alternative   *)
(* of the format selector the site can serve, it fetches one file per      *)
(* stream selector, naming each from outtmpl, the title and the stream's   *)
(* extension, and reports each to the progress hooks; then it merges two   *)
(* streams into merge_output_format, or runs FFmpegExtractAudio, and       *)
(* removes the files it post-processed.                                    *)
(***************************************************************************)
StreamNames(title, alt) ==
    IF Len(alt) = 2
    THEN { << <<title, "f137", "mp4">>, <<title, "f140", "m4a">> >> }
    ELSE IF alt[1].stream = "bestaudio"
    THEN { << <<title, e>> >> : e \in {"webm", "mp3"} }
    ELSE { << <<title, e>> >> : e \in {"mp4", "webm"} }

\* The file the post-processing of the fetched streams leaves
FinalName(title, opts, nFetched, name) ==
    IF opts.postprocessors # <<>> THEN <<title, opts.postprocessors[1].preferredcodec>>
    ELSE IF nFetched = 2 THEN <<title, opts.merge_output_format[1]>>
    ELSE name

\* lines 199-202: extract_info returns; the site serves one alternative.
\* A blank URL names no site.
LibExtract(s) ==
    /\ pc[s] = "extract"
    /\ ~IsBlank(run[s].req[1].url)
    /\ \E i \in 1..Len(run[s].ydl_opts[1].opts.format) :
         \E names \in StreamNames(Title(s), run[s].ydl_opts[1].opts.format[i]) :
            run' = [run EXCEPT ![s] =
                     [@ EXCEPT !.attempts = @ + 1,
                               !.streams = names,
                               !.shown = @ \cup {Msg("download_content", "write",
                                                     <<"Starting download for: ", Title(s)>>)}]]
    /\ pc' = [pc EXCEPT ![s] = "download"]
    /\ UNCHANGED <<IS_CLOUD_DEPLOYMENT, host, active, submissions, dirs, files>>

\* line 200: extract_info raises
LibExtractRaises(s, e) ==
    /\ pc[s] = "extract"
    /\ IsBlank(run[s].req[1].url) => e = "other"
    /\ run' = [run EXCEPT ![s] =
                 [@ EXCEPT !.attempts = @ + 1,
                           !.raised = @ \cup {e},
                           !.pending = Raise(e)]]
    /\ pc' = [pc EXCEPT ![s] = "finally"]
    /\ UNCHANGED <<IS_CLOUD_DEPLOYMENT, host, active, submissions, dirs, files>>

\* line 203: one stream is fetched into temp_dir, which the library makes when
\* it is not there; progress_hook sees the stream's 'downloading' events and
\* its 'finished' event
LibFetch(s) ==
    /\ pc[s] = "download"
    /\ run[s].streams # <<>>
    /\ LET f == File(run[s].temp_dir[1], Head(run[s].streams))
           seen == progress_hook(run[s].downloaded_file,
                                 [status |-> "downloading", filename |-> f])
       IN /\ files' = files \cup {f}
          /\ dirs' = dirs \cup {f.dir}
          /\ run' = [run EXCEPT ![s] =
                       [@ EXCEPT !.streams = Tail(@),
                                 !.fetched = @ \cup {f},
                                 !.downloaded_file =
                                     progress_hook(seen, [status |-> "finished", filename |-> f])]]
    /\ UNCHANGED <<IS_CLOUD_DEPLOYMENT, host, active, submissions, pc>>

\* line 203: download raises: the site refuses
LibDownloadRaises(s, e) ==
    /\ pc[s] = "download"
    /\ run' = [run EXCEPT ![s] = [@ EXCEPT !.raised = @ \cup {e}, !.pending = Raise(e)]]
    /\ pc' = [pc EXCEPT ![s] = "finally"]
    /\ UNCHANGED <<IS_CLOUD_DEPLOYMENT, host, active, submissions, dirs, files>>

\* The fetched streams are merged or converted
Postprocessed(s) ==
    run[s].ydl_opts[1].opts.postprocessors # <<>> \/ Cardinality(run[s].fetched) = 2

\* line 203: every stream is fetched; the library post-processes and
\* returns, or raises when the files to post-process are gone
LibPostprocess(s) ==
    /\ pc[s] = "download"
    /\ run[s].streams = <<>>
    /\ LET opts == run[s].ydl_opts[1].opts
           final == { File(f.dir, FinalName(Title(s), opts, Cardinality(run[s].fetched), f.name)) :
                        f \in run[s].fetched }
       IN IF ~Postprocessed(s)
          THEN /\ files' = files
               /\ run' = [run EXCEPT ![s] = [@ EXCEPT !.libOk = TRUE]]
               /\ pc' = [pc EXCEPT ![s] = "check"]
          ELSE IF run[s].fetched \subseteq files
          THEN /\ files' = (files \ run[s].fetched) \cup final
               /\ run' = [run EXCEPT ![s] = [@ EXCEPT !.libOk = TRUE]]
               /\ pc' = [pc EXCEPT ![s] = "check"]
          ELSE /\ files' = files
               /\ run' = [run EXCEPT ![s] = [@ EXCEPT !.pending = Raise("oserror")]]
               /\ pc' = [pc EXCEPT ![s] = "finally"]
    /\ UNCHANGED <<IS_CLOUD_DEPLOYMENT, host, active, submissions, dirs>>

(***************************************************************************)
(* download_content after the library returned, lines 205-222              *)
(***************************************************************************)
CheckResult(s) ==
    /\ pc[s] = "check"
    /\ LET df == run[s].downloaded_file
           found == df # None /\ df[1] \in files
           saved == TruthyStr(run[s].download_folder) /\ ~IS_CLOUD_DEPLOYMENT
           report == IF saved
                     THEN { Msg("download_content", "success",
                                <<"Download completed! File saved to: ", run[s].download_folder[1]>>),
                            Msg("download_content", "info", <<"File: ">> \o df[1].name) }
                     ELSE { Msg("download_content", "download_button",
                                <<"Download ">> \o df[1].name) }
       IN run' = [run EXCEPT ![s] =
                   IF found
                   THEN [@ EXCEPT !.shown = @ \cup report,
                                  !.offered = df,
                                  !.pending = Return("True")]
                   ELSE [@ EXCEPT !.pending = Return("False")]]
    /\ pc' = [pc EXCEPT ![s] = "finally"]
    /\ UNCHANGED <<IS_CLOUD_DEPLOYMENT, host, active, submissions, dirs, files>>

(***************************************************************************)
(* The finally block, lines 224-228, and cleanup_temp_files, lines 166-175 *)
(***************************************************************************)
Cleans(s) ==
    cleanup_deletes(IS_CLOUD_DEPLOYMENT, run[s].download_folder, run[s].temp_dir[1], dirs)

\* nothing to clean: the call ends
FinallySkips(s) ==
    /\ pc[s] = "finally"
    /\ ~Cleans(s)
    /\ run' = [run EXCEPT ![s] = Finished(@)]
    /\ pc' = [pc EXCEPT ![s] = "done"]
    /\ UNCHANGED <<IS_CLOUD_DEPLOYMENT, host, active, submissions, dirs, files>>

\* line 171: temp_dir.glob('*') lists the directory
FinallyCleans(s) ==
    /\ pc[s] = "finally"
    /\ Cleans(s)
    /\ run' = [run EXCEPT ![s] =
                 [@ EXCEPT !.globbed = {f \in files : f.dir = run[s].temp_dir[1]}]]
    /\ pc' = [pc EXCEPT ![s] = "cleanup"]
    /\ UNCHANGED <<IS_CLOUD_DEPLOYMENT, host, active, submissions, dirs, files>>

\* line 172: f.unlink(missing_ok=True)
CleanupUnlink(s) ==
    /\ pc[s] = "cleanup"
    /\ \E f \in run[s].globbed :
          /\ files' = files \ {f}
          /\ run' = [run EXCEPT ![s] = [@ EXCEPT !.globbed = @ \ {f}]]
    /\ UNCHANGED <<IS_CLOUD_DEPLOYMENT, host, active, submissions, dirs, pc>>

\* line 172 raises (the system refuses to remove the file); lines 174-175
\* log it and the call ends
CleanupUnlinkFails(s) ==
    /\ pc[s] = "cleanup"
    /\ \E f \in run[s].globbed : f \in files
    /\ run' = [run EXCEPT ![s] = Finished([@ EXCEPT !.globbed = {}, !.warnings = @ + 1])]
    /\ pc' = [pc EXCEPT ![s] = "done"]
    /\ UNCHANGED <<IS_CLOUD_DEPLOYMENT, host, active, submissions, dirs, files>>

\* line 173: temp_dir.rmdir() removes the directory when it is there and
\* empty, and raises otherwise; lines 174-175 log that
CleanupRmdir(s) ==
    /\ pc[s] = "cleanup"
    /\ run[s].globbed = {}
    /\ LET d == run[s].temp_dir[1]
           removable == d \in dirs /\ ~(\E f \in files : f.dir = d)
       IN /\ dirs' = IF removable THEN dirs \ {d} ELSE dirs
          /\ run' = [run EXCEPT ![s] =
                       Finished([@ EXCEPT !.warnings = IF removable THEN @ ELSE @ + 1])]
    /\ pc' = [pc EXCEPT ![s] = "done"]
    /\ UNCHANGED <<IS_CLOUD_DEPLOYMENT, host, active, submissions, files>>

\* The next interaction of the session reruns the script
Rerun(s) ==
    /\ pc[s] = "done"
    /\ run' = [run EXCEPT ![s] = FreshRun]
    /\ pc' = [pc EXCEPT ![s] = "idle"]
    /\ UNCHANGED <<IS_CLOUD_DEPLOYMENT, host, active, submissions, dirs, files>>

Next ==
    \E s \in Sessions :
        \/ SubmitRejected(s)
        \/ SubmitNoFfmpeg(s)
        \/ SubmitStart(s)
        \/ SubmitMkdirFails(s)
        \/ LibExtract(s)
        \/ \E e \in ErrClasses : LibExtractRaises(s, e) \/ LibDownloadRaises(s, e)
        \/ LibFetch(s)
        \/ LibPostprocess(s)
        \/ CheckResult(s)
        \/ FinallySkips(s)
        \/ FinallyCleans(s)
        \/ CleanupUnlink(s)
        \/ CleanupUnlinkFails(s)
        \/ CleanupRmdir(s)
        \/ Rerun(s)

Spec == Init /\ [][Next]_vars
SpecConc == InitConc /\ [][Next]_vars

(***************************************************************************)
(* Properties                                                              *)
(***************************************************************************)
Done(s) == pc[s] = "done"
Succeeded(s) == run[s].result = Some("True")
Failed(s) == run[s].result = Some("False")
\* An error message rendered by download_content or on its behalf
ErrorsShown(s) ==
    {m \in run[s].shown : m.kind = "error" /\ m.by \in {"download_content", "show_ffmpeg_instructions"}}
\* The folder passed to download_content names a directory
FolderSelected(s) ==
    TruthyStr(run[s].req[1].download_folder) /\ isdir(run[s].req[1].download_folder, dirs)

\* C1: a submission whose URL is empty or whitespace only never invokes
\* download_content and shows the validation error.
C1_BlankUrlRejected ==
    \A s \in Sessions :
        (run[s].req # None /\ IsBlank(run[s].req[1].url))
            => /\ run[s].invoked = 0
               /\ Msg("main", "error", <<"Please enter a YouTube URL">>) \in run[s].shown

\* C2: an attempt that fails with HTTP 403 is followed by an attempt with the
\* next client identity: the run ends in success after a second attempt, or,
\* with every identity refused, in a failure that carries troubleshooting
\* guidance.  The identity list and the guidance are those of the design.
ClientIdentities == <<"mobile", "web">>
Troubleshooting == "age, region or membership restricted: supply a cookies file"
C2_FallbackOn403 ==
    \A s \in Sessions :
        (Done(s) /\ "403" \in run[s].raised)
            => /\ run[s].attempts <= Len(ClientIdentities)
               /\ \/ Succeeded(s) /\ run[s].attempts >= 2
                  \/ /\ Failed(s)
                     /\ run[s].attempts = Len(ClientIdentities)
                     /\ \E m \in ErrorsShown(s) : \E i \in 1..Len(m.text) : m.text[i] = Troubleshooting

\* C3: when the library fails with an error that is not access-denied, one
\* attempt has been made, none follows (the run is in its finally block or
\* over), and the run ends in failure with an error message that contains the
\* library's error text unchanged.
C3_OtherErrorAbortsVerbatim ==
    \A s \in Sessions :
        "other" \in run[s].raised
            => /\ run[s].attempts = 1
               /\ pc[s] \in {"finally", "cleanup", "done"}
               /\ ~Succeeded(s)
               /\ Done(s) => /\ Failed(s)
                             /\ \E m \in ErrorsShown(s) :
                                   \E i \in 1..Len(m.text) : m.text[i] = ErrText("other")
C3_Witness == \E s \in Sessions : Done(s) /\ run[s].raised = {"other"} /\ Failed(s)

\* C4: when check_ffmpeg finds no transcoder, in cloud and in local mode, the
\* call shows the instruction message, ends without success (st.stop() ends
\* the run), never uses the extraction library and makes no directory.
C4_NoFfmpegNoDownload ==
    \A s \in Sessions :
        (run[s].invoked = 1 /\ check_ffmpeg(host) = None)
            => /\ Done(s)
               /\ run[s].result \in {Some("False"), Some("stopped")}
               /\ \E m \in ErrorsShown(s) : m.by = "show_ffmpeg_instructions"
               /\ ~IS_CLOUD_DEPLOYMENT =>
                      \E m \in run[s].shown : m.kind = "markdown" /\ m.text[1] = "FFmpeg Installation"
               /\ run[s].attempts = 0
               /\ run[s].mkdirs = 0
               /\ run[s].ydl_opts = None
               /\ LocalTempDir \notin dirs
C4_Witness ==
    \E s \in Sessions :
        run[s].invoked = 1 /\ check_ffmpeg(host) = None /\ ~IS_CLOUD_DEPLOYMENT /\ Done(s)

\* C5: the format options depend on the content kind and the quality cap
\* only.  Audio: best audio, codec mp3 at 192 whatever quality is passed.
\* Video with cap Q: every alternative is bounded by height<=Q, merged to
\* mp4.  Video without cap: unbounded bestvideo+bestaudio, merged to mp4.
VideoSelectors(alt) == {j \in 1..Len(alt) : alt[j].stream \in {"bestvideo", "best"}}
C5_OptionsByKindAndQuality ==
    /\ \A q \in quality_options \cup {Some(0)} :
          format_opts("audio", q) = format_opts("audio", None)
    /\ \A s \in Sessions :
          run[s].ydl_opts # None =>
            LET o == run[s].ydl_opts[1].opts
                r == run[s].req[1]
            IN /\ r.download_type = "audio" =>
                    /\ o.format[1] = <<Sel("bestaudio", None)>>
                    /\ Len(o.postprocessors) = 1
                    /\ o.postprocessors[1].preferredcodec = "mp3"
                    /\ o.postprocessors[1].preferredquality = "192"
               /\ (r.download_type = "video" /\ r.quality # None) =>
                    /\ r.quality[1] \in {240, 360, 480, 720, 1080}
                    /\ \A i \in 1..Len(o.format) :
                          /\ VideoSelectors(o.format[i]) # {}
                          /\ \A j \in VideoSelectors(o.format[i]) :
                                o.format[i][j].height = r.quality
                    /\ o.merge_output_format = Some("mp4")
               /\ (r.download_type = "video" /\ r.quality = None) =>
                    /\ o.format[1] = <<Sel("bestvideo", None), Sel("bestaudio", None)>>
                    /\ \A i \in 1..Len(o.format) : \A j \in 1..Len(o.format[i]) :
                          o.format[i][j].height = None
                    /\ o.merge_output_format = Some("mp4")
C5_Witness ==
    \E s \in Sessions :
        /\ run[s].ydl_opts # None
        /\ run[s].req[1].download_type = "video"
        /\ run[s].req[1].quality = Some(480)

\* C6 as claimed: in every mode, after download_content returned True the
\* file it reported or offered still exists.
C6_SuccessKeepsFile ==
    \A s \in Sessions : (Done(s) /\ Succeeded(s)) => run[s].offered[1] \in files

\* C6 as amended: after download_content returned True the file it reported
\* or offered still exists in cloud mode and in local mode with a selected
\* folder; in local mode with no folder selected the file was in
\* temp_downloads, which cleanup_temp_files has emptied and removed unless
\* an unlink or the rmdir raised and was logged.
C6_SuccessKeepsFileOutsideTemp ==
    \A s \in Sessions :
        (Done(s) /\ Succeeded(s)) =>
            /\ run[s].offered # None
            /\ (IS_CLOUD_DEPLOYMENT \/ FolderSelected(s)) => run[s].offered[1] \in files
            /\ (~IS_CLOUD_DEPLOYMENT /\ ~FolderSelected(s)) =>
                  /\ run[s].offered[1].dir = LocalTempDir
                  /\ run[s].warnings = 0 =>
                        run[s].offered[1] \notin files /\ LocalTempDir \notin dirs
C6_Witness ==
    \E s \in Sessions :
        /\ Done(s) /\ Succeeded(s)
        /\ ~IS_CLOUD_DEPLOYMENT /\ FolderSelected(s)
        /\ run[s].offered[1] \in files

\* C7: every run of download_content that returns failure has shown an error
\* message to the session.
C7_FailureShowsError ==
    \A s \in Sessions : (Done(s) /\ Failed(s)) => ErrorsShown(s) # {}

\* C8: when the library completed download and post-processing, the run
\* returns success and reports the post-processed file: a name ending in mp4
\* for video, in mp3 for audio.
C8_SuccessReportsFinalFile ==
    \A s \in Sessions :
        (Done(s) /\ run[s].libOk) =>
            /\ Succeeded(s)
            /\ run[s].offered # None
            /\ Ext(run[s].offered[1]) =
                  IF run[s].req[1].download_type = "video" THEN "mp4" ELSE "mp3"

\* C9: a step of the finally block or of cleanup_temp_files removes only
\* files of temp_downloads and only the directory temp_downloads, and removes
\* anything only in local mode with no valid folder selected: nothing of /tmp
\* in cloud mode, nothing of a selected folder.
C9_CleanupOnlyLocalTemp ==
    [][\A s \in Sessions :
          (pc[s] \in {"finally", "cleanup"} /\ run'[s] # run[s]) =>
              /\ \A f \in files \ files' : f.dir = LocalTempDir
              /\ dirs \ dirs' \subseteq {LocalTempDir}
              /\ (files' # files \/ dirs' # dirs) =>
                    ~IS_CLOUD_DEPLOYMENT /\ ~FolderSelected(s)]_vars
C9_Witness ==
    \E s \in Sessions :
        /\ Done(s)
        /\ run[s].temp_dir = Some(LocalTempDir)
        /\ run[s].fetched # {}
        /\ LocalTempDir \notin dirs
        /\ \E f \in files : f.dir = UserDir

\* C10: with two sessions in local mode, no folder selected and different
\* file names, neither interferes with the other: each session reaches the
\* outcome it reaches when run alone.  Alone, a run whose library call
\* completed and left the file of the last 'finished' event in place returns
\* success, and the files the library fetched are there for it to
\* post-process.
LeftInPlace(s) ==
    /\ run[s].downloaded_file # None
    /\ FinalName(Title(s), run[s].ydl_opts[1].opts, Cardinality(run[s].fetched),
                 run[s].downloaded_file[1].name) = run[s].downloaded_file[1].name
C10_SameOutcomeAsAlone ==
    \A s \in Sessions :
        Done(s) =>
            /\ (run[s].libOk /\ LeftInPlace(s)) => Succeeded(s)
            /\ run[s].attempts = 1 =>
                  \A m \in ErrorsShown(s) : m.text # error_message(ErrText("oserror"))

====
